---- MODULE Spec2Model ----
(***************************************************************************)
(* GlucoGuide (src/app.py): a Streamlit script over two SQLite tables.     *)
(*                                                                         *)
(* The script is executed top to bottom once per widget event of the       *)
(* session.  A button returns True only in the run that its own press      *)
(* triggered; a disabled button cannot be pressed; runs of one session are *)
(* serialised, a press made while a run is blocked is queued and served    *)
(* when the run reaches its next Streamlit command.  The only place where  *)
(* a run blocks is the chat-completion call of generate_meal_plan, so a    *)
(* run is one step of the model except the generate run, which is two:     *)
(* up to the call (PressGenerate) and from its return (GenerateReturn).    *)
(*                                                                         *)
(* Readings are REAL in the code; the model draws them from integers       *)
(* (mg/dL).  date is the text "%Y-%m-%d %H:%M:%S" of the wall clock: a     *)
(* fixed-width text whose order and equality are those of the second it    *)
(* names, so the model keeps the second.  Python's Optional[str] is a      *)
(* sequence of length 0 (None) or 1.                                       *)
(***************************************************************************)
EXTENDS Integers, Sequences, FiniteSets, TLC

VARIABLES
    clock,               \* datetime.now(), in whole seconds
    blood_sugar_data,    \* table blood_sugar_data, in rowid order
    meal_plans,          \* table meal_plans, in rowid order
    bs_seq,              \* AUTOINCREMENT counter of blood_sugar_data
    mp_seq,              \* AUTOINCREMENT counter of meal_plans
    session_state,       \* st.session_state: a function from its keys
    fasting_sugar,       \* value of the "Fasting Sugar" number_input
    pre_meal_sugar,      \* value of the "Pre-Meal Sugar" number_input
    post_meal_sugar,     \* value of the "Post-Meal Sugar" number_input
    dietary_preferences, \* value of the "Dietary Preferences" selectbox
    errors,              \* errors of the latest run (line 204)
    alerts,              \* alerts of the latest run (line 212), <<>> if disabled
    pc,                  \* "idle": no run in progress; "calling": blocked at line 86;
                         \* "loading": the first run of the session has not reached line 204
    pending,             \* a press of Generate is queued behind the blocked run
    event,               \* the button whose press the latest run serves, "" if none
    response,            \* what the latest chat-completion call produced
    meal_plan,           \* value returned by generate_meal_plan in the latest run
    gen_error,           \* text given to st.error at line 97 in the latest run
    fav_button,          \* the latest run rendered "Mark as Favorite"
    dispatched,          \* chat-completion calls started
    completed            \* chat-completion calls ended (returned or raised)

vars == <<clock, blood_sugar_data, meal_plans, bs_seq, mp_seq, session_state,
          fasting_sugar, pre_meal_sugar, post_meal_sugar, dietary_preferences,
          errors, alerts, pc, pending, event, response, meal_plan, gen_error,
          fav_button, dispatched, completed>>

(***************************************************************************)
(* Bounds of the model.                                                    *)
(***************************************************************************)
MaxClock == 1
MaxCalls == 2

(***************************************************************************)
(* Constants of the program.                                               *)
(***************************************************************************)
FastingMin == 50
MealMin == 70
SugarMax == 500
FastingAlertLevel == 126
PreMealAlertLevel == 130
PostMealAlertLevel == 180
TrendLimit == 7
DefaultFasting == 90
DefaultPreMeal == 110
DefaultPostMeal == 140
WearableFasting == 120
WearablePreMeal == 140
WearablePostMeal == 160

DefaultUser == "user_123"
Users == {DefaultUser, "user_456"}

DietaryOptions == <<"", "Vegetarian", "Low-Carb", "Mediterranean",
                    "Vegan", "Gluten-Free", "Diabetic-Friendly">>
DefaultDietary == DietaryOptions[2]

FastingError == "Fasting sugar level must be between 50 and 500 mg/dL."
PreMealError == "Pre-meal sugar level must be between 70 and 500 mg/dL."
PostMealError == "Post-meal sugar level must be between 70 and 500 mg/dL."
DietaryError == "Dietary preferences cannot be empty."

FastingAlert == "High fasting sugar detected (>126 mg/dL). Consider consulting a doctor."
PreMealAlert == "High pre-meal sugar detected (>130 mg/dL). Consider consulting a doctor."
PostMealAlert == "High post-meal sugar detected (>180 mg/dL). Consider consulting a doctor."

ErrorPrefix == "Error generating meal plan: "

(***************************************************************************)
(* Inputs the model draws.                                                 *)
(***************************************************************************)
\* What the user types into an input: a value out of the band, or (fasting,
\* dietary preference) the default again.
FastingInputs == {49, DefaultFasting}
PreMealInputs == {69}
PostMealInputs == {501}
DietaryInputs == {DietaryOptions[1], DefaultDietary}
PlanTexts == {"Plan A"}
ExceptionTexts == {"", "Connection error."}
\* The call raises, or returns a completion whose content is None or a text.
Responses == [raised : {TRUE}, text : {<<e>> : e \in ExceptionTexts}]
             \cup [raised : {FALSE}, text : {<<>>, <<"">>} \cup {<<p>> : p \in PlanTexts}]
NoResponse == [raised |-> FALSE, text |-> <<>>]

\* Python truthiness of an Optional[str]
Truthy(opt) == opt # <<>> /\ opt[1] # ""

Range(s) == {s[i] : i \in DOMAIN s}

(***************************************************************************)
(* validate_inputs, generate_health_alerts                                 *)
(***************************************************************************)
\* validate_inputs under the minimum policy (each reading >= 0)
validate_inputs_minimum(f, p, q, d) ==
    (IF ~(0 <= f) THEN <<FastingError>> ELSE <<>>)
    \o (IF ~(0 <= p) THEN <<PreMealError>> ELSE <<>>)
    \o (IF ~(0 <= q) THEN <<PostMealError>> ELSE <<>>)
    \o (IF d = "" THEN <<DietaryError>> ELSE <<>>)

validate_inputs(f, p, q, d) ==
    (IF ~(FastingMin <= f /\ f <= SugarMax) THEN <<FastingError>> ELSE <<>>)
    \o (IF ~(MealMin <= p /\ p <= SugarMax) THEN <<PreMealError>> ELSE <<>>)
    \o (IF ~(MealMin <= q /\ q <= SugarMax) THEN <<PostMealError>> ELSE <<>>)
    \o (IF d = "" THEN <<DietaryError>> ELSE <<>>)

\* generate_health_alerts with the fasting threshold inclusive
generate_health_alerts_inclusive(f, p, q) ==
    (IF f >= FastingAlertLevel THEN <<FastingAlert>> ELSE <<>>)
    \o (IF p > PreMealAlertLevel THEN <<PreMealAlert>> ELSE <<>>)
    \o (IF q > PostMealAlertLevel THEN <<PostMealAlert>> ELSE <<>>)

generate_health_alerts(f, p, q) ==
    (IF f > FastingAlertLevel THEN <<FastingAlert>> ELSE <<>>)
    \o (IF p > PreMealAlertLevel THEN <<PreMealAlert>> ELSE <<>>)
    \o (IF q > PostMealAlertLevel THEN <<PostMealAlert>> ELSE <<>>)

\* generate_meal_plan giving st.error the bare str(e)
generate_meal_plan_bare_error(r) ==
    [value |-> IF r.raised THEN <<>> ELSE r.text,
     error |-> IF r.raised THEN r.text[1] ELSE ""]

\* generate_meal_plan, given what the chat-completion call produced: the value
\* it returns and the text it gives to st.error ("" when it gives none)
generate_meal_plan(r) ==
    [value |-> IF r.raised THEN <<>> ELSE r.text,
     error |-> IF r.raised THEN ErrorPrefix \o r.text[1] ELSE ""]

(***************************************************************************)
(* The SQL statements.  A table is the sequence of its rows in rowid order.*)
(***************************************************************************)
save_blood_sugar_data(tbl, seq, uid, date, f, p, q) ==
    Append(tbl, [id |-> seq + 1, user_id |-> uid, date |-> date,
                 fasting_sugar |-> f, pre_meal_sugar |-> p, post_meal_sugar |-> q])

\* save_meal_plan keeping one plan per user (INSERT OR REPLACE on user_id)
save_meal_plan_upsert(tbl, seq, uid, date, plan, is_favorite) ==
    Append(SelectSeq(tbl, LAMBDA r : r.user_id # uid),
           [id |-> seq + 1, user_id |-> uid, date |-> date,
            meal_plan |-> plan, is_favorite |-> IF is_favorite THEN 1 ELSE 0])

save_meal_plan(tbl, seq, uid, date, plan, is_favorite) ==
    Append(tbl, [id |-> seq + 1, user_id |-> uid, date |-> date,
                 meal_plan |-> plan, is_favorite |-> IF is_favorite THEN 1 ELSE 0])

\* WHERE user_id = ?
OfUser(tbl, uid) == SelectSeq(tbl, LAMBDA r : r.user_id = uid)

MaxDate(rows) == CHOOSE d \in {rows[i].date : i \in DOMAIN rows} :
                    \A i \in DOMAIN rows : rows[i].date <= d

RemoveAt(s, i) == SubSeq(s, 1, i - 1) \o SubSeq(s, i + 1, Len(s))

\* ORDER BY date DESC; rows of one date stay in rowid order
RECURSIVE OrderByDateDesc(_)
OrderByDateDesc(rows) ==
    IF rows = <<>> THEN <<>>
    ELSE LET i == CHOOSE k \in DOMAIN rows :
                     /\ rows[k].date = MaxDate(rows)
                     /\ \A j \in 1..(k - 1) : rows[j].date # MaxDate(rows)
         IN <<rows[i]>> \o OrderByDateDesc(RemoveAt(rows, i))

Limit(s, n) == SubSeq(s, 1, IF Len(s) < n THEN Len(s) ELSE n)

get_blood_sugar_trends(tbl, uid) ==
    LET rows == Limit(OrderByDateDesc(OfUser(tbl, uid)), TrendLimit)
    IN [i \in DOMAIN rows |-> <<rows[i].date, rows[i].fasting_sugar,
                                rows[i].pre_meal_sugar, rows[i].post_meal_sugar>>]

get_saved_meal_plans(tbl, uid) ==
    LET rows == OrderByDateDesc(OfUser(tbl, uid))
    IN [i \in DOMAIN rows |-> <<rows[i].date, rows[i].meal_plan, rows[i].is_favorite>>]

\* UPDATE meal_plans SET is_favorite = 1
\*   WHERE user_id = ? AND date = (SELECT MAX(date) FROM meal_plans WHERE user_id = ?)
MarkLatestFavorite(tbl, uid) ==
    IF OfUser(tbl, uid) = <<>> THEN tbl
    ELSE [i \in DOMAIN tbl |->
            IF tbl[i].user_id = uid /\ tbl[i].date = MaxDate(OfUser(tbl, uid))
            THEN [tbl[i] EXCEPT !.is_favorite = 1]
            ELSE tbl[i]]

\* DELETE FROM meal_plans WHERE date = ?
DeleteByDate(tbl, date) == SelectSeq(tbl, LAMBDA r : r.date # date)

(***************************************************************************)
(* Pieces of the script.                                                   *)
(***************************************************************************)
user_id == session_state["user_id"]

\* st.button(label): True only in the run that the press of label triggered
ButtonClicked(label) == event = label

\* disabled only from the second error on
disabled_off_by_one == Len(errors) > 1

\* disabled = len(errors) > 0
disabled == Len(errors) > 0

\* lines 204-216: errors, and the alerts when the inputs are valid
Validate(f, p, q, d) ==
    /\ errors' = validate_inputs(f, p, q, d)
    /\ alerts' = IF Len(validate_inputs(f, p, q, d)) > 0 THEN <<>>
                 ELSE generate_health_alerts(f, p, q)

\* The delete buttons the "Saved Meal Plans" loop renders: the loop stops with
\* DuplicateWidgetID at the first row whose key del_<date> was already used.
ListedDates ==
    IF "meal_plan_generated" \notin DOMAIN session_state THEN {}
    ELSE LET saved == get_saved_meal_plans(meal_plans, user_id)
         IN {saved[i][1] : i \in {n \in DOMAIN saved :
                \A k \in 1..n : \A j \in 1..(k - 1) : saved[j][1] # saved[k][1]}}

\* A whole run in which the Generate button returns False, with the widget
\* values f, p, q, d: nothing is generated, nothing of a former generation is
\* rendered again.  ev is the button pressed, "" for an edit of an input and
\* for the run st.rerun() starts.
Rerun(ev, f, p, q, d) ==
    /\ fasting_sugar' = f
    /\ pre_meal_sugar' = p
    /\ post_meal_sugar' = q
    /\ dietary_preferences' = d
    /\ Validate(f, p, q, d)
    /\ event' = ev
    /\ response' = NoResponse
    /\ meal_plan' = <<>>
    /\ gen_error' = ""
    /\ fav_button' = FALSE
    /\ pc' = "idle"
    /\ pending' = FALSE
    /\ UNCHANGED <<clock, dispatched, completed>>

(***************************************************************************)
(* The state once the page has loaded in a new session on an empty store.  *)
(***************************************************************************)
Init ==
    /\ clock = 0
    /\ blood_sugar_data = <<>>
    /\ meal_plans = <<>>
    /\ bs_seq = 0
    /\ mp_seq = 0
    /\ session_state = [k \in {"user_id"} |-> DefaultUser]
    /\ fasting_sugar = DefaultFasting
    /\ pre_meal_sugar = DefaultPreMeal
    /\ post_meal_sugar = DefaultPostMeal
    /\ dietary_preferences = DefaultDietary
    /\ errors = validate_inputs(DefaultFasting, DefaultPreMeal, DefaultPostMeal,
                                DefaultDietary)
    /\ alerts = generate_health_alerts(DefaultFasting, DefaultPreMeal, DefaultPostMeal)
    /\ pc = "idle"
    /\ pending = FALSE
    /\ event = ""
    /\ response = NoResponse
    /\ meal_plan = <<>>
    /\ gen_error = ""
    /\ fav_button = FALSE
    /\ dispatched = 0
    /\ completed = 0

(***************************************************************************)
(* The wall clock advances.                                                *)
(***************************************************************************)
Tick ==
    /\ clock < MaxClock
    /\ clock' = clock + 1
    /\ UNCHANGED <<blood_sugar_data, meal_plans, bs_seq, mp_seq, session_state,
                   fasting_sugar, pre_meal_sugar, post_meal_sugar,
                   dietary_preferences, errors, alerts, pc, pending, event,
                   response, meal_plan, gen_error, fav_button, dispatched, completed>>

(***************************************************************************)
(* The user edits one of the four input widgets (lines 191-202).           *)
(***************************************************************************)
ChangeInput ==
    /\ pc = "idle"
    /\ \/ \E f \in FastingInputs \ {fasting_sugar} :
             Rerun("", f, pre_meal_sugar, post_meal_sugar, dietary_preferences)
       \/ \E p \in PreMealInputs \ {pre_meal_sugar} :
             Rerun("", fasting_sugar, p, post_meal_sugar, dietary_preferences)
       \/ \E q \in PostMealInputs \ {post_meal_sugar} :
             Rerun("", fasting_sugar, pre_meal_sugar, q, dietary_preferences)
       \/ \E d \in DietaryInputs \ {dietary_preferences} :
             Rerun("", fasting_sugar, pre_meal_sugar, post_meal_sugar, d)
    /\ UNCHANGED <<blood_sugar_data, meal_plans, bs_seq, mp_seq, session_state>>

(***************************************************************************)
(* "Sync Wearable Data" (lines 40-45, 174-182).  The number inputs take    *)
(* their value= from the session state: when it changes they are new       *)
(* widgets that start at it, otherwise they keep what the user typed.      *)
(***************************************************************************)
get_wearable_data == <<WearableFasting, WearablePreMeal, WearablePostMeal>>

SyncWearable ==
    /\ pc = "idle"
    /\ session_state' =
          [k \in DOMAIN session_state \cup
                 {"fasting_sugar", "pre_meal_sugar", "post_meal_sugar"} |->
             CASE k = "fasting_sugar" -> get_wearable_data[1]
               [] k = "pre_meal_sugar" -> get_wearable_data[2]
               [] k = "post_meal_sugar" -> get_wearable_data[3]
               [] OTHER -> session_state[k]]
    /\ IF "fasting_sugar" \in DOMAIN session_state
       THEN Rerun("sync", fasting_sugar, pre_meal_sugar, post_meal_sugar,
                  dietary_preferences)
       ELSE Rerun("sync", get_wearable_data[1], get_wearable_data[2],
                  get_wearable_data[3], dietary_preferences)
    /\ UNCHANGED <<blood_sugar_data, meal_plans, bs_seq, mp_seq>>

\* Reset without DELETE FROM meal_plans
Reset_readings_only ==
    /\ pc = "idle"
    /\ blood_sugar_data' = <<>>
    /\ session_state' = [k \in {"user_id"} |-> DefaultUser]
    /\ IF "fasting_sugar" \in DOMAIN session_state
       THEN Rerun("", DefaultFasting, DefaultPreMeal, DefaultPostMeal,
                  dietary_preferences)
       ELSE Rerun("", fasting_sugar, pre_meal_sugar, post_meal_sugar,
                  dietary_preferences)
    /\ UNCHANGED <<meal_plans, bs_seq, mp_seq>>

(***************************************************************************)
(* "Reset Database (Testing)" (lines 165-170), and the run st.rerun()      *)
(* starts: user_id is set again, the number inputs fall back to their      *)
(* defaults when the wearable values had been their value=.                *)
(***************************************************************************)
Reset ==
    /\ pc = "idle"
    /\ blood_sugar_data' = <<>>
    /\ meal_plans' = <<>>
    /\ session_state' = [k \in {"user_id"} |-> DefaultUser]
    /\ IF "fasting_sugar" \in DOMAIN session_state
       THEN Rerun("", DefaultFasting, DefaultPreMeal, DefaultPostMeal,
                  dietary_preferences)
       ELSE Rerun("", fasting_sugar, pre_meal_sugar, post_meal_sugar,
                  dietary_preferences)
    /\ UNCHANGED <<bs_seq, mp_seq>>

(***************************************************************************)
(* "Generate Personalized Meal Plan" is pressed (line 218): the run goes   *)
(* as far as the chat-completion call (lines 204-221, 74-94) and blocks.   *)
(***************************************************************************)
PressGenerate ==
    /\ pc = "idle"
    /\ ~disabled
    /\ dispatched < MaxCalls
    /\ Validate(fasting_sugar, pre_meal_sugar, post_meal_sugar, dietary_preferences)
    /\ event' = "generate"
    /\ pc' = "calling"
    /\ dispatched' = dispatched + 1
    /\ response' = NoResponse
    /\ meal_plan' = <<>>
    /\ gen_error' = ""
    /\ fav_button' = FALSE
    /\ UNCHANGED <<clock, blood_sugar_data, meal_plans, bs_seq, mp_seq,
                   session_state, fasting_sugar, pre_meal_sugar, post_meal_sugar,
                   dietary_preferences, pending, completed>>

\* A press during the call that starts a second call at once
PressGenerateBusy_dispatch ==
    /\ pc = "calling"
    /\ ~disabled
    /\ dispatched < MaxCalls
    /\ dispatched' = dispatched + 1
    /\ UNCHANGED <<clock, blood_sugar_data, meal_plans, bs_seq, mp_seq,
                   session_state, fasting_sugar, pre_meal_sugar, post_meal_sugar,
                   dietary_preferences, errors, alerts, pc, pending, event,
                   response, meal_plan, gen_error, fav_button, completed>>

(***************************************************************************)
(* The button is pressed again while the run is blocked in the call: the   *)
(* run rendered it with disabled = len(errors) > 0 (lines 209, 218) before *)
(* the call, and the press waits for the run.                              *)
(***************************************************************************)
PressGenerateBusy ==
    /\ pc = "calling"
    /\ ~disabled
    /\ ~pending
    /\ dispatched < MaxCalls
    /\ pending' = TRUE
    /\ UNCHANGED <<clock, blood_sugar_data, meal_plans, bs_seq, mp_seq,
                   session_state, fasting_sugar, pre_meal_sugar, post_meal_sugar,
                   dietary_preferences, errors, alerts, pc, event, response,
                   meal_plan, gen_error, fav_button, dispatched, completed>>

(***************************************************************************)
(* The call ends (lines 95-98) and the run goes on (lines 223-242).  r is  *)
(* what the call produced, saved_at and planned_at the two datetime.now()  *)
(* of save_blood_sugar_data and save_meal_plan.  A queued press stops the  *)
(* run at its next Streamlit command, which follows the two saves, and the *)
(* run it starts blocks in the call in its turn.                           *)
(***************************************************************************)
GenerateReturn ==
    /\ pc = "calling"
    /\ \E r \in Responses, saved_at \in clock..MaxClock :
       \E planned_at \in saved_at..MaxClock :
          LET plan == generate_meal_plan(r).value
              readings == save_blood_sugar_data(blood_sugar_data, bs_seq, user_id,
                              saved_at, fasting_sugar, pre_meal_sugar, post_meal_sugar)
              plans == save_meal_plan(meal_plans, mp_seq, user_id, planned_at,
                                      plan[1], FALSE)
          IN /\ response' = r
             /\ meal_plan' = plan
             /\ gen_error' = generate_meal_plan(r).error
             /\ completed' = completed + 1
             /\ IF Truthy(plan)
                THEN /\ session_state' =
                          [k \in DOMAIN session_state \cup {"meal_plan_generated"} |->
                             IF k = "meal_plan_generated" THEN TRUE
                             ELSE session_state[k]]
                     /\ blood_sugar_data' = readings
                     /\ bs_seq' = bs_seq + 1
                     /\ meal_plans' = IF ~pending /\ ButtonClicked("favorite")
                                      THEN MarkLatestFavorite(plans, user_id)
                                      ELSE plans
                     /\ mp_seq' = mp_seq + 1
                     /\ clock' = planned_at
                ELSE /\ saved_at = clock
                     /\ planned_at = clock
                     /\ UNCHANGED <<clock, blood_sugar_data, meal_plans, bs_seq,
                                    mp_seq, session_state>>
             /\ fav_button' = (Truthy(plan) /\ ~pending)
    /\ IF pending
       THEN /\ pc' = "calling"
            /\ dispatched' = dispatched + 1
       ELSE /\ pc' = "idle"
            /\ dispatched' = dispatched
    /\ pending' = FALSE
    /\ UNCHANGED <<fasting_sugar, pre_meal_sugar, post_meal_sugar,
                   dietary_preferences, errors, alerts, event>>

(***************************************************************************)
(* "Mark as Favorite" is pressed.  The button is created at line 234,      *)
(* inside the branch of line 218: in the run its press triggers, the       *)
(* Generate button returns False and the branch is not entered.            *)
(***************************************************************************)
PressFavorite ==
    /\ pc = "idle"
    /\ fav_button
    /\ Rerun("favorite", fasting_sugar, pre_meal_sugar, post_meal_sugar,
             dietary_preferences)
    /\ UNCHANGED <<blood_sugar_data, meal_plans, bs_seq, mp_seq, session_state>>

(***************************************************************************)
(* "Delete" of a listed plan is pressed (lines 247-256), then st.rerun().  *)
(***************************************************************************)
PressDelete ==
    /\ pc = "idle"
    /\ \E date \in ListedDates : meal_plans' = DeleteByDate(meal_plans, date)
    /\ Rerun("", fasting_sugar, pre_meal_sugar, post_meal_sugar,
             dietary_preferences)
    /\ UNCHANGED <<blood_sugar_data, bs_seq, mp_seq, session_state>>

Next ==
    \/ Tick
    \/ ChangeInput
    \/ SyncWearable
    \/ Reset
    \/ PressGenerate
    \/ PressGenerateBusy
    \/ GenerateReturn
    \/ PressFavorite
    \/ PressDelete

Spec == Init /\ [][Next]_vars

(***************************************************************************)
(* validate_inputs and generate_health_alerts on their own: a session      *)
(* whose widgets hold any of the values below, and the run that evaluates  *)
(* lines 204-216 on them.                                                  *)
(***************************************************************************)
FnFastingInputs == {0, FastingMin - 1, FastingMin, FastingAlertLevel,
                    FastingAlertLevel + 1, SugarMax, SugarMax + 1}
FnPreMealInputs == {0, MealMin - 1, MealMin, PreMealAlertLevel,
                    PreMealAlertLevel + 1, SugarMax, SugarMax + 1}
FnPostMealInputs == {0, MealMin - 1, MealMin, PostMealAlertLevel,
                     PostMealAlertLevel + 1, SugarMax, SugarMax + 1}

FnInit ==
    /\ clock = 0
    /\ blood_sugar_data = <<>>
    /\ meal_plans = <<>>
    /\ bs_seq = 0
    /\ mp_seq = 0
    /\ session_state = [k \in {"user_id"} |-> DefaultUser]
    /\ fasting_sugar \in FnFastingInputs
    /\ pre_meal_sugar \in FnPreMealInputs
    /\ post_meal_sugar \in FnPostMealInputs
    /\ dietary_preferences \in Range(DietaryOptions)
    /\ errors = <<>>
    /\ alerts = <<>>
    /\ pc = "loading"
    /\ pending = FALSE
    /\ event = ""
    /\ response = NoResponse
    /\ meal_plan = <<>>
    /\ gen_error = ""
    /\ fav_button = FALSE
    /\ dispatched = 0
    /\ completed = 0

FnLoad ==
    /\ pc = "loading"
    /\ Rerun("", fasting_sugar, pre_meal_sugar, post_meal_sugar, dietary_preferences)
    /\ UNCHANGED <<blood_sugar_data, meal_plans, bs_seq, mp_seq, session_state>>

FnNext == FnLoad

FnSpec == FnInit /\ [][FnNext]_vars

(***************************************************************************)
(* Properties.                                                             *)
(***************************************************************************)
\* a chat-completion call ends in this step
CallEnded == completed' = completed + 1

\* this step appends one row to each table, for the session's user, the
\* reading's date not after the plan's
AppendedOneEach ==
    /\ Len(blood_sugar_data') = Len(blood_sugar_data) + 1
    /\ SubSeq(blood_sugar_data', 1, Len(blood_sugar_data)) = blood_sugar_data
    /\ Len(meal_plans') = Len(meal_plans) + 1
    /\ SubSeq(meal_plans', 1, Len(meal_plans)) = meal_plans
    /\ blood_sugar_data'[Len(blood_sugar_data')].user_id = user_id
    /\ meal_plans'[Len(meal_plans')].user_id = user_id
    /\ blood_sugar_data'[Len(blood_sugar_data')].date
          <= meal_plans'[Len(meal_plans')].date

\* C1, as stated: whenever the call returns a text without raising, one
\* reading and one plan are appended for the user, reading date <= plan date.
C1_AnyText ==
    [][(CallEnded /\ ~response'.raised /\ response'.text # <<>>)
          => AppendedOneEach]_vars

\* C1, amended: whenever the call returns a non-empty text without raising,
\* one reading and one plan are appended for the user, reading date <= plan
\* date.
C1_NonEmptyText ==
    [][(CallEnded /\ ~response'.raised /\ Truthy(response'.text))
          => AppendedOneEach]_vars

\* a generation has just succeeded, its plan dated after its reading
C1_Witness ==
    /\ Truthy(meal_plan)
    /\ blood_sugar_data # <<>>
    /\ meal_plans # <<>>
    /\ blood_sugar_data[Len(blood_sugar_data)].date
          < meal_plans[Len(meal_plans)].date

\* C2: whenever the call raises, both tables (and their row counters) are
\* left as they were and the text given to st.error is not empty.
C2_FailureWritesNothing ==
    [][(CallEnded /\ response'.raised)
          => /\ blood_sugar_data' = blood_sugar_data
             /\ meal_plans' = meal_plans
             /\ bs_seq' = bs_seq
             /\ mp_seq' = mp_seq
             /\ gen_error' # ""
             /\ Len(gen_error') > 0]_vars

\* a call has just raised an exception of empty text, on a store that holds rows
C2_Witness ==
    /\ response.raised
    /\ response.text = <<"">>
    /\ blood_sugar_data # <<>>
    /\ meal_plans # <<>>

\* the bands of the claim
InBand ==
    /\ 50 <= fasting_sugar /\ fasting_sugar <= 500
    /\ 70 <= pre_meal_sugar /\ pre_meal_sugar <= 500
    /\ 70 <= post_meal_sugar /\ post_meal_sugar <= 500
    /\ dietary_preferences # ""

\* C3: while a reading is out of its band or the preference is empty, the run
\* has at least one error, and no step starts a call or adds a row to the
\* readings or the plans table.
C3_InvalidInputsBlocked ==
    /\ []((pc # "loading" /\ ~InBand) => Len(errors) >= 1)
    /\ [][~InBand => /\ dispatched' = dispatched
                     /\ Len(blood_sugar_data') <= Len(blood_sugar_data)
                     /\ Len(meal_plans') <= Len(meal_plans)]_vars

\* an out-of-band fasting value alone stands between the user and a call that
\* the bound on calls would still allow
C3_Witness ==
    /\ pc = "idle"
    /\ fasting_sugar = 49
    /\ errors = <<FastingError>>
    /\ dispatched < MaxCalls
    /\ blood_sugar_data # <<>>

\* C4: every row of the readings table has fasting_sugar in [50,500],
\* pre_meal_sugar in [70,500] and post_meal_sugar in [70,500].
C4_StoredReadingsInBand ==
    \A i \in DOMAIN blood_sugar_data :
        /\ 50 <= blood_sugar_data[i].fasting_sugar
        /\ blood_sugar_data[i].fasting_sugar <= 500
        /\ 70 <= blood_sugar_data[i].pre_meal_sugar
        /\ blood_sugar_data[i].pre_meal_sugar <= 500
        /\ 70 <= blood_sugar_data[i].post_meal_sugar
        /\ blood_sugar_data[i].post_meal_sugar <= 500

\* the table holds a row of typed defaults and a row synced from the wearable,
\* while the inputs are out of band
C4_Witness ==
    /\ \E i \in DOMAIN blood_sugar_data :
          blood_sugar_data[i].fasting_sugar = DefaultFasting
    /\ \E i \in DOMAIN blood_sugar_data :
          blood_sugar_data[i].fasting_sugar = WearableFasting
    /\ ~InBand

\* C5, as stated: the press of "Mark as Favorite" sets is_favorite on the one
\* plan of the user that has the maximum date and changes nothing else.
C5_MarksLatestOnly ==
    [][PressFavorite =>
          \E i \in DOMAIN meal_plans :
             /\ meal_plans[i].user_id = user_id
             /\ meal_plans[i].date = MaxDate(OfUser(meal_plans, user_id))
             /\ meal_plans' = [meal_plans EXCEPT ![i].is_favorite = 1]]_vars

\* C6, as stated: the press of "Delete" on a listed plan removes exactly one
\* row of the plans table and leaves the readings table as it was.
C6_DeletesOne ==
    [][PressDelete =>
          /\ Len(meal_plans') = Len(meal_plans) - 1
          /\ \E i \in DOMAIN meal_plans : meal_plans' = RemoveAt(meal_plans, i)
          /\ blood_sugar_data' = blood_sugar_data]_vars

\* both queries return the empty sequence for every user
AllEmpty ==
    \A u \in Users :
        /\ get_blood_sugar_trends(blood_sugar_data, u) = <<>>
        /\ get_saved_meal_plans(meal_plans, u) = <<>>

\* C7: after Reset both queries return the empty sequence for every user, and
\* they stop doing so only in a step in which a call ends with a plan.
C7_ResetEmpties ==
    [][/\ Reset => AllEmpty'
       /\ (AllEmpty /\ ~AllEmpty') => (CallEnded /\ Truthy(meal_plan'))]_vars

\* the store is empty and has held rows
C7_Witness ==
    /\ AllEmpty
    /\ bs_seq >= 1
    /\ mp_seq >= 1

AlertRank(a) ==
    CASE a = FastingAlert -> 1
      [] a = PreMealAlert -> 2
      [] a = PostMealAlert -> 3
      [] OTHER -> 0

\* C9: on valid inputs the alerts hold the fasting alert iff fasting > 126,
\* the pre-meal alert iff pre_meal > 130, the post-meal alert iff
\* post_meal > 180, nothing else, each once, in that order.
C9_AlertThresholds ==
    (pc = "idle" /\ errors = <<>>) =>
        /\ (FastingAlert \in Range(alerts)) <=> (fasting_sugar > 126)
        /\ (PreMealAlert \in Range(alerts)) <=> (pre_meal_sugar > 130)
        /\ (PostMealAlert \in Range(alerts)) <=> (post_meal_sugar > 180)
        /\ \A i \in DOMAIN alerts : AlertRank(alerts[i]) > 0
        /\ \A i, j \in DOMAIN alerts :
              i < j => AlertRank(alerts[i]) < AlertRank(alerts[j])

\* valid inputs at the thresholds 126 and 130 and above 180: the post-meal
\* alert alone
C9_Witness ==
    /\ pc = "idle"
    /\ errors = <<>>
    /\ fasting_sugar = 126
    /\ pre_meal_sugar = 130
    /\ post_meal_sugar = 181
    /\ alerts = <<PostMealAlert>>

\* C10, as stated: once the press of "Mark as Favorite" has been served, the
\* user's most recent plan has is_favorite set.
C10_FavoriteAfterPress ==
    (event = "favorite" /\ pc = "idle") =>
        /\ OfUser(meal_plans, user_id) # <<>>
        /\ \E i \in DOMAIN meal_plans :
              /\ meal_plans[i].user_id = user_id
              /\ meal_plans[i].date = MaxDate(OfUser(meal_plans, user_id))
              /\ meal_plans[i].is_favorite = 1

====
